---- MODULE Spec2Model ----
(***************************************************************************)
(* Download orchestration of Media-Downloader: the queue manager of        *)
(* ui_elements/main_app_window.py, the playlist worker of                  *)
(* ui_elements/app_logic.py and the two job controllers of the repository: *)
(*   "legacy"  download_logic.run_download_process (the one app_logic.py   *)
(*             imports and starts in a thread), and                        *)
(*   "core"    download_process_core.run_download_process, which starts a  *)
(*             SubprocessOutputProcessor thread with two stream readers.   *)
(* Download ids (uuid4 strings) are the job numbers 1..MaxJobs; None is 0. *)
(* Cancellation tokens (threading.Event) are numbers 1..; cancel_set holds *)
(* the tokens that are set.  Log strings put on the channel change no      *)
(* state of the consumer and are left out of download_queue.               *)
(***************************************************************************)
EXTENDS Integers, Sequences, FiniteSets, TLC

\* ---- bounds of the model ------------------------------------------------
MaxJobs == 2        \* run_download_process threads started in one behaviour
MaxLines == 2       \* output lines one downloader process writes (JobSpec)
MaxUpdates == 1     \* UPDATE events of one job as the queue manager sees it (Spec)
MaxPlaylist == 1    \* playlist runs, and entries of one playlist listing
MaxChannel == 2     \* events waiting on the channel between two polls (Spec)

VARIABLES
    impl,                           \* which run_download_process is wired in
    download_subtitles,             \* settings["download_subtitles"]
    job,                            \* job number -> state of its threads and process
    njobs,                          \* run_download_process threads started so far
    ntok,                           \* threading.Event objects created so far
    cancel_set,                     \* the Events that are set
    download_queue,                 \* self.download_queue (the event channel)
    pending_downloads,              \* self.pending_downloads
    current_active_download_id,     \* self.current_active_download_id
    current_download_cancel_event,  \* self.current_download_cancel_event
    active_downloads,               \* keys of self.active_downloads
    current_playlist_download_info, \* app_logic.current_playlist_download_info
    worker,                         \* the playlist_download_worker thread
    poll_armed,                     \* self.after(100, process_download_queue) is pending
    call,                           \* the last call of a pure function: name and arguments
    ret                             \* what that call returned or raised

vars == << impl, download_subtitles, job, njobs, ntok, cancel_set, download_queue,
           pending_downloads, current_active_download_id,
           current_download_cancel_event, active_downloads,
           current_playlist_download_info, worker, poll_armed, call, ret >>

fn_vars == << call, ret >>

mgr_vars == << pending_downloads, current_active_download_id,
               current_download_cancel_event, active_downloads,
               current_playlist_download_info, worker, poll_armed >>

JobIds == 1..MaxJobs

\* No pure function has been called yet.
NoCall == [fn |-> "none"]

\* ---- messages on the event channel ---------------------------------------
\* fp: "path" a file path string, "none" the key holds None, "missing" no such key.
\* sub: the payload has a "sub_indicator" key.
Msg(tag, id, status, fp, playlist, sub) ==
    [tag |-> tag, id |-> id, status |-> status, fp |-> fp,
     playlist |-> playlist, sub |-> sub]

AddedMsg(j) == Msg("ADDED", j, "starting", "missing", job[j].playlist, FALSE)

UpdateMsg(j) == Msg("UPDATE", j, "downloading", "missing", FALSE, FALSE)

PathOf(j) == IF job[j].path THEN "path" ELSE "none"

\* ---- the downloader process (environment) --------------------------------
\* proc: "none" not created, "run" running, "term" SIGTERM delivered and exit
\* pending, "kill" SIGKILL sent and exit pending, "exit" exited (rc holds the code).
\* stubborn: the process ignores SIGTERM.  hang: the process never exits on its
\* own.  lines: output lines written to stdout and not yet read.
\* finalized: the thumbnail and subtitle steps were entered.  thumbnail_path:
\* "ytdlp" the .jpg yt-dlp wrote, "made" one made with ffmpeg, "none" None.
NoJob ==
    [pc |-> "idle", tok |-> 0, playlist |-> FALSE, proc |-> "none",
     stubborn |-> FALSE, hang |-> FALSE, lines |-> 0, rc |-> 0, path |-> FALSE,
     exists |-> FALSE, was_cancelled |-> FALSE, rd |-> "none",
     finalized |-> FALSE, thumbnail_path |-> "none"]

Alive(j) == job[j].proc \in {"run", "term", "kill"}

Spawned(r, s, h, n) == [r EXCEPT !.proc = "run", !.stubborn = s, !.hang = h, !.lines = n]

Terminated(r) ==
    IF r.proc = "run" /\ ~r.stubborn THEN [r EXCEPT !.proc = "term"] ELSE r

\* A thread that sends no kill: a faulty variant.
NotKilled(r) == r

Killed(r) == IF r.proc = "exit" THEN r ELSE [r EXCEPT !.proc = "kill"]

\* Kinds of stdout line: "json" a {...} line with a filepath, "meta" a {...} line
\* without one, "progress" a [download] N% line, "badpct" a [download] line whose
\* percentage is not a float ("1.2.3%"), "merge" a Merging/Extracting line.
LineKinds == {"json", "meta", "progress", "badpct", "merge", "plain"}

proc_exit(j) ==
    /\ job[j].proc = "run"
    /\ ~job[j].hang
    /\ \E c \in {0, 1} : job' = [job EXCEPT ![j].proc = "exit", ![j].rc = c]
    /\ UNCHANGED << impl, download_subtitles, njobs, ntok, cancel_set, download_queue >>
    /\ UNCHANGED mgr_vars
    /\ UNCHANGED fn_vars

proc_die(j) ==
    /\ job[j].proc \in {"term", "kill"}
    /\ job' = [job EXCEPT ![j].proc = "exit", ![j].rc = 1]
    /\ UNCHANGED << impl, download_subtitles, njobs, ntok, cancel_set, download_queue >>
    /\ UNCHANGED mgr_vars
    /\ UNCHANGED fn_vars

\* ---- download_logic.run_download_process ---------------------------------
JobFrame == UNCHANGED << impl, download_subtitles, njobs, ntok, cancel_set >>
            /\ UNCHANGED mgr_vars
            /\ UNCHANGED fn_vars

FailedNone(j) == Msg("STATUS", j, "failed", "none", job[j].playlist, FALSE)

rdp_added(j) ==
    /\ impl = "legacy"
    /\ job[j].pc = "start"
    /\ download_queue' = Append(download_queue, AddedMsg(j))
    /\ job' = [job EXCEPT ![j].pc = "popen"]
    /\ JobFrame

rdp_popen(j) ==
    /\ impl = "legacy"
    /\ job[j].pc = "popen"
    /\ \/ /\ download_queue' = Append(download_queue, FailedNone(j))
          /\ job' = [job EXCEPT ![j].pc = "done"]
       \/ /\ \E s \in BOOLEAN, h \in BOOLEAN, n \in 0..MaxLines :
                job' = [job EXCEPT ![j] = [Spawned(@, s, h, n) EXCEPT !.pc = "loop"]]
          /\ UNCHANGED download_queue
    /\ JobFrame

rdp_loop(j) ==
    /\ impl = "legacy"
    /\ job[j].pc = "loop"
    /\ job' = IF job[j].tok \in cancel_set
              THEN IF Alive(j)
                   THEN [job EXCEPT ![j] = [Terminated(@) EXCEPT !.pc = "wait5"]]
                   ELSE [job EXCEPT ![j].was_cancelled = TRUE, ![j].pc = "post"]
              ELSE [job EXCEPT ![j].pc = "read"]
    /\ UNCHANGED download_queue
    /\ JobFrame

rdp_wait5(j) ==
    /\ impl = "legacy"
    /\ job[j].pc = "wait5"
    /\ job' = [job EXCEPT ![j] = [Killed(@) EXCEPT !.was_cancelled = TRUE, !.pc = "post"]]
    /\ UNCHANGED download_queue
    /\ JobFrame

rdp_readline(j) ==
    /\ impl = "legacy"
    /\ job[j].pc = "read"
    /\ \/ /\ job[j].lines > 0
          /\ \E k \in LineKinds :
                CASE k \in {"json", "meta", "badpct"} ->
                        /\ download_queue' = Append(download_queue, FailedNone(j))
                        /\ job' = [job EXCEPT ![j].lines = @ - 1, ![j].pc = "fin"]
                  [] k = "progress" ->
                        /\ download_queue' = Append(download_queue, UpdateMsg(j))
                        /\ job' = [job EXCEPT ![j].lines = @ - 1, ![j].pc = "loop"]
                  [] k = "merge" ->
                        /\ UNCHANGED download_queue
                        /\ job' = [job EXCEPT ![j].lines = @ - 1, ![j].path = TRUE,
                                              ![j].pc = "loop"]
                  [] OTHER ->
                        /\ UNCHANGED download_queue
                        /\ job' = [job EXCEPT ![j].lines = @ - 1, ![j].pc = "loop"]
       \/ /\ job[j].lines = 0
          /\ job[j].proc = "exit"
          /\ job' = [job EXCEPT ![j].pc = "post"]
          /\ UNCHANGED download_queue
    /\ JobFrame

LegacyStatus(j, e) ==
    IF job[j].was_cancelled
    THEN Msg("STATUS", j, "cancelled", PathOf(j), job[j].playlist, FALSE)
    ELSE IF job[j].rc = 0 /\ job[j].path /\ e
         THEN Msg("STATUS", j, "completed", "path", job[j].playlist, download_subtitles)
         ELSE Msg("STATUS", j, "failed", PathOf(j), job[j].playlist, TRUE)

\* ---- thumbnail helpers ------------------------------------------------------
\* How the ffprobe/ffmpeg run of a helper ends.
ToolOutcomes == {"ok", "nonzero", "FileNotFoundError", "TimeoutExpired", "ValueError"}

\* Every path of the helper calls log_func, in the try body or in an except
\* clause; an exception of log_func in the body is caught by "except
\* Exception", whose own log_func call raises again.  Otherwise every
\* exception is caught and the result is True or False.
generate_thumbnail_from_video_logic(o, log_raises) ==
    IF log_raises THEN "raise"
    ELSE IF o = "ok" THEN "True" ELSE "False"

extract_album_art_logic(o, log_raises) ==
    IF log_raises THEN "raise"
    ELSE IF o = "ok" THEN "True" ELSE "False"

\* AppLogic.generate_thumbnail_from_video: its log_adapter calls
\* queue_for_log.put when queue_for_log is given; queue_for_log is "queue" a
\* queue.Queue, "function" a plain function (no put attribute), "None".
generate_thumbnail_from_video(o, queue_for_log) ==
    generate_thumbnail_from_video_logic(o, queue_for_log = "function")

\* thumbnail_path after the thumbnail step, or "raise".  t: the .jpg yt-dlp
\* writes exists.
ThumbnailOf(t, made) ==
    IF t THEN "ytdlp"
    ELSE CASE made = "True" -> "made"
           [] made = "False" -> "none"
           [] OTHER -> "raise"

\* download_logic.py hands its own log_to_queue_func (a function) to
\* generate_thumbnail_func, which is AppLogic.generate_thumbnail_from_video.
legacy_thumbnail(t, download_type, o) ==
    ThumbnailOf(t, IF download_type = "Audio" THEN extract_album_art_logic(o, FALSE)
                   ELSE generate_thumbnail_from_video(o, "function"))

\* download_process_core.py chooses the helper by download_type == "video",
\* while the types are "Video" and "Audio".
core_thumbnail(t, download_type, o) ==
    ThumbnailOf(t, IF download_type = "video"
                   THEN generate_thumbnail_from_video_logic(o, FALSE)
                   ELSE extract_album_art_logic(o, FALSE))

DownloadTypes == {"Video", "Audio"}

rdp_post(j) ==
    /\ impl = "legacy"
    /\ job[j].pc = "post"
    /\ \E e \in BOOLEAN, t \in BOOLEAN, download_type \in DownloadTypes, o \in ToolOutcomes :
          /\ (job[j].was_cancelled \/ job[j].rc # 0 \/ ~job[j].path) => ~e
          /\ LET status_payload == LegacyStatus(j, e)
                 finalize == status_payload.status = "completed" /\ job[j].path /\ e
                 thumb == IF finalize THEN legacy_thumbnail(t, download_type, o)
                          ELSE "none"
             IN  /\ download_queue' =
                       Append(download_queue,
                              IF thumb = "raise" THEN FailedNone(j) ELSE status_payload)
                 /\ job' = [job EXCEPT ![j].exists = e, ![j].finalized = finalize,
                                       ![j].thumbnail_path =
                                           IF thumb = "raise" THEN "none" ELSE thumb,
                                       ![j].pc = "fin"]
    /\ JobFrame

rdp_finally(j) ==
    /\ impl = "legacy"
    /\ \/ /\ job[j].pc = "fin"
          /\ job' = IF Alive(j)
                    THEN [job EXCEPT ![j] = [Terminated(@) EXCEPT !.pc = "fin_wait"]]
                    ELSE [job EXCEPT ![j].pc = "done"]
       \/ /\ job[j].pc = "fin_wait"
          /\ job' = [job EXCEPT ![j] = [Killed(@) EXCEPT !.pc = "done"]]
    /\ UNCHANGED download_queue
    /\ JobFrame

\* ---- download_process_core.run_download_process --------------------------
CoreStatus(j, status, fp) == Msg("STATUS", j, status, fp, job[j].playlist, TRUE)

core_run_download_process(j) ==
    /\ impl = "core"
    /\ job[j].pc = "start"
    /\ \/ /\ download_queue' =
                download_queue \o << AddedMsg(j),
                                     Msg("STATUS", j, "failed", "missing", FALSE, FALSE) >>
          /\ job' = [job EXCEPT ![j].pc = "done"]
       \/ /\ download_queue' = Append(download_queue, AddedMsg(j))
          /\ job' = [job EXCEPT ![j].pc = "popen"]
    /\ JobFrame

\* ---- SubprocessOutputProcessor ------------------------------------------
\* Popen's FileNotFoundError leaving the thread with no event: a faulty variant.
RunPopenWithoutEvent(j) ==
    /\ impl = "core"
    /\ job[j].pc = "popen"
    /\ job' = [job EXCEPT ![j].pc = "done"]
    /\ UNCHANGED download_queue
    /\ JobFrame

run_popen(j) ==
    /\ impl = "core"
    /\ job[j].pc = "popen"
    /\ \/ /\ download_queue' = Append(download_queue, CoreStatus(j, "failed", "none"))
          /\ job' = [job EXCEPT ![j].pc = "done"]
       \/ /\ \E s \in BOOLEAN, h \in BOOLEAN, n \in 0..MaxLines :
                job' = [job EXCEPT ![j] = [Spawned(@, s, h, n) EXCEPT !.rd = "read",
                                                                      !.pc = "mon"]]
          /\ UNCHANGED download_queue
    /\ JobFrame

run_monitor(j) ==
    /\ impl = "core"
    /\ job[j].pc = "mon"
    /\ \/ /\ ~Alive(j)
          /\ job' = [job EXCEPT ![j].pc = "wait"]
       \/ /\ Alive(j)
          /\ job[j].tok \in cancel_set
          /\ job' = [job EXCEPT ![j] = [Terminated(@) EXCEPT !.pc = "wait"]]
    /\ UNCHANGED download_queue
    /\ JobFrame

run_wait(j) ==
    /\ impl = "core"
    /\ job[j].pc = "wait"
    /\ IF job[j].proc = "exit"
       THEN /\ job' = [job EXCEPT ![j].pc = "join"]
            /\ UNCHANGED download_queue
       ELSE /\ download_queue' = Append(download_queue, CoreStatus(j, "failed", "none"))
            /\ job' = [job EXCEPT ![j] = [Killed(@) EXCEPT !.pc = "done"]]
    /\ JobFrame

run_join(j) ==
    /\ impl = "core"
    /\ job[j].pc = "join"
    /\ job' = [job EXCEPT ![j].pc = "final"]
    /\ UNCHANGED download_queue
    /\ JobFrame

\* _finalize_successful_download without its os.path.exists test: a faulty
\* variant that C6_CompletedOnlyIfFileExists has to reject.
FinalizeWithoutExistsCheck(j, e) ==
    IF job[j].path
    THEN CoreStatus(j, "completed", "path")
    ELSE CoreStatus(j, "failed", "none")

_finalize_successful_download(j, e) ==
    IF job[j].path /\ e
    THEN CoreStatus(j, "completed", "path")
    ELSE CoreStatus(j, "failed", "none")

\* An exception of the thumbnail step would leave the thread before
\* _send_final_status: no event.
run_final(j) ==
    /\ impl = "core"
    /\ job[j].pc = "final"
    /\ \E e \in BOOLEAN, t \in BOOLEAN, download_type \in DownloadTypes, o \in ToolOutcomes :
          /\ (job[j].tok \in cancel_set \/ job[j].rc # 0 \/ ~job[j].path) => ~e
          /\ LET status_payload ==
                     IF job[j].tok \in cancel_set
                     THEN CoreStatus(j, "cancelled", "none")
                     ELSE IF job[j].rc = 0
                          THEN _finalize_successful_download(j, e)
                          ELSE CoreStatus(j, "failed", "none")
                 finalize == job[j].tok \notin cancel_set /\ job[j].rc = 0
                             /\ job[j].path /\ e
                 thumb == IF finalize THEN core_thumbnail(t, download_type, o) ELSE "none"
             IN  /\ download_queue' =
                       IF thumb = "raise" THEN download_queue
                       ELSE Append(download_queue, status_payload)
                 /\ job' = [job EXCEPT ![j].exists = e, ![j].finalized = finalize,
                                       ![j].thumbnail_path =
                                           IF thumb = "raise" THEN "none" ELSE thumb,
                                       ![j].pc = "done"]
    /\ JobFrame

_read_stream(j) ==
    /\ impl = "core"
    /\ job[j].rd = "read"
    /\ \/ /\ job[j].lines > 0
          /\ \E k \in LineKinds :
                CASE k = "json" ->
                        /\ download_queue' = Append(download_queue, UpdateMsg(j))
                        /\ job' = [job EXCEPT ![j].lines = @ - 1, ![j].path = TRUE]
                  [] k \in {"meta", "progress"} ->
                        /\ download_queue' = Append(download_queue, UpdateMsg(j))
                        /\ job' = [job EXCEPT ![j].lines = @ - 1]
                  [] k = "badpct" ->
                        /\ UNCHANGED download_queue
                        /\ job' = [job EXCEPT ![j].lines = @ - 1, ![j].rd = "dead"]
                  [] k = "merge" ->
                        /\ UNCHANGED download_queue
                        /\ job' = [job EXCEPT ![j].lines = @ - 1, ![j].path = TRUE]
                  [] OTHER ->
                        /\ UNCHANGED download_queue
                        /\ job' = [job EXCEPT ![j].lines = @ - 1]
       \/ /\ job[j].lines = 0
          /\ job[j].proc = "exit"
          /\ job' = [job EXCEPT ![j].rd = "closed"]
          /\ UNCHANGED download_queue
    /\ JobFrame

\* ---- cancellation (main_app_window.py) ----------------------------------
on_cancel_download_click ==
    /\ current_download_cancel_event # 0
    /\ current_download_cancel_event \notin cancel_set
    /\ cancel_set' = cancel_set \cup {current_download_cancel_event}
    /\ UNCHANGED << impl, download_subtitles, job, njobs, ntok, download_queue >>
    /\ UNCHANGED mgr_vars
    /\ UNCHANGED fn_vars

\* ---- one job, as started by on_download_button_click for a single URL ----
NoInfo ==
    [total_items |-> 0, completed_items |-> 0, failed_items |-> 0,
     skipped_items |-> 0, cancelled |-> FALSE]

Launched(t, p) == [NoJob EXCEPT !.pc = "start", !.tok = t, !.playlist = p]

JobInit ==
    /\ impl \in {"legacy", "core"}
    /\ download_subtitles \in BOOLEAN
    /\ job = [j \in JobIds |-> IF j = 1 THEN Launched(1, FALSE) ELSE NoJob]
    /\ njobs = 1
    /\ ntok = 1
    /\ cancel_set = {}
    /\ download_queue = << >>
    /\ pending_downloads = << >>
    /\ current_active_download_id = 0
    /\ current_download_cancel_event = 1
    /\ active_downloads = {}
    /\ current_playlist_download_info = NoInfo
    /\ worker = [pc |-> "idle", tok |-> 0, n |-> 0, runs |-> 0]
    /\ poll_armed = TRUE
    /\ call = NoCall
    /\ ret = NoCall

JobThread(j) ==
    \/ rdp_added(j)
    \/ rdp_popen(j)
    \/ rdp_loop(j)
    \/ rdp_wait5(j)
    \/ rdp_readline(j)
    \/ rdp_post(j)
    \/ rdp_finally(j)
    \/ core_run_download_process(j)
    \/ run_popen(j)
    \/ run_monitor(j)
    \/ run_wait(j)
    \/ run_join(j)
    \/ run_final(j)

JobNext ==
    \/ \E j \in JobIds : JobThread(j)
    \/ \E j \in JobIds : _read_stream(j)
    \/ \E j \in JobIds : proc_exit(j)
    \/ \E j \in JobIds : proc_die(j)
    \/ on_cancel_download_click

JobSpec == JobInit /\ [][JobNext]_vars

\* Threads are scheduled fairly and a signalled process dies; a process that
\* does not hang exits.  Nothing forces the user to cancel.
JobFairness ==
    /\ \A j \in JobIds : WF_vars(JobThread(j))
    /\ \A j \in JobIds : WF_vars(_read_stream(j))
    /\ \A j \in JobIds : WF_vars(proc_exit(j))
    /\ \A j \in JobIds : WF_vars(proc_die(j))

JobFairSpec == JobInit /\ [][JobNext]_vars /\ JobFairness

\* ---- the job as the queue manager sees it ---------------------------------
\* What one run_download_process thread puts on the channel: ADDED, then
\* UPDATEs, then one STATUS out of JobOutcomes (JobSpec checks that the
\* controllers above emit no other STATUS).  late: the stdout reader of the
\* core controller is still running when the STATUS is put.
\* The channel is an unbounded queue.Queue; MaxChannel caps how many events
\* wait on it between two polls, and MaxUpdates how many UPDATEs a job puts.
JobOutcomes(j) ==
    IF impl = "legacy"
    THEN {FailedNone(j),
          Msg("STATUS", j, "completed", "path", job[j].playlist, download_subtitles)}
         \cup {Msg("STATUS", j, "failed", fp, job[j].playlist, TRUE) : fp \in {"path", "none"}}
         \cup IF job[j].tok \in cancel_set
              THEN {Msg("STATUS", j, "cancelled", fp, job[j].playlist, FALSE) :
                        fp \in {"path", "none"}}
              ELSE {}
    ELSE {Msg("STATUS", j, "failed", "missing", FALSE, FALSE),
          CoreStatus(j, "completed", "path"), CoreStatus(j, "failed", "none")}
         \cup IF job[j].tok \in cancel_set
              THEN {CoreStatus(j, "cancelled", "none")}
              ELSE {}

job_added(j) ==
    /\ job[j].pc = "start"
    /\ download_queue' = Append(download_queue, AddedMsg(j))
    /\ Len(download_queue) < MaxChannel
    /\ job' = [job EXCEPT ![j].pc = "running"]
    /\ JobFrame

job_update(j) ==
    /\ job[j].pc \in {"running", "finished"}
    /\ job[j].lines < MaxUpdates
    /\ Len(download_queue) < MaxChannel
    /\ download_queue' = Append(download_queue, UpdateMsg(j))
    /\ job' = [job EXCEPT ![j].lines = @ + 1]
    /\ JobFrame

job_terminal(j) ==
    /\ job[j].pc = "running"
    /\ Len(download_queue) < MaxChannel
    /\ \E m \in JobOutcomes(j), late \in BOOLEAN :
          /\ late => (impl = "core" /\ m.fp # "missing")
          /\ download_queue' = Append(download_queue, m)
          /\ job' = [job EXCEPT ![j].pc = "finished",
                                ![j].lines = IF late THEN @ ELSE MaxUpdates]
    /\ JobFrame

\* ---- the playlist worker (app_logic.py) -----------------------------------
PlaylistOverall == MaxJobs + 1

OtherMsg == Msg("OTHER", 0, "signal", "missing", FALSE, FALSE)

WorkerFrame ==
    UNCHANGED << impl, download_subtitles, job, njobs, ntok, cancel_set,
                 pending_downloads, current_active_download_id,
                 current_download_cancel_event, active_downloads, poll_armed,
                 call, ret >>

_fetch_playlist_urls ==
    /\ worker.pc = "fetch"
    /\ \/ /\ worker.tok \in cancel_set
          /\ worker' = [worker EXCEPT !.pc = "none"]
          /\ UNCHANGED << download_queue, current_playlist_download_info >>
       \/ /\ worker.tok \notin cancel_set
          /\ worker.n < MaxPlaylist
          /\ worker' = [worker EXCEPT !.n = @ + 1]
          /\ current_playlist_download_info' =
                [current_playlist_download_info EXCEPT !.total_items = worker.n + 1]
          /\ UNCHANGED download_queue
       \/ /\ worker' = [worker EXCEPT !.pc = "urls"]
          /\ UNCHANGED << download_queue, current_playlist_download_info >>
       \/ /\ worker' = [worker EXCEPT !.pc = "none"]
          /\ Len(download_queue) < MaxChannel
          /\ download_queue' = Append(download_queue, OtherMsg)
          /\ UNCHANGED current_playlist_download_info
    /\ WorkerFrame

playlist_download_worker ==
    /\ \/ /\ worker.pc = "none"
          /\ current_playlist_download_info' =
                IF worker.tok \in cancel_set
                THEN [current_playlist_download_info EXCEPT !.cancelled = TRUE]
                ELSE current_playlist_download_info
          /\ download_queue' =
                download_queue \o
                << OtherMsg, Msg("STATUS", PlaylistOverall, "failed", "missing", FALSE, FALSE) >>
       \/ /\ worker.pc = "urls"
          /\ current_playlist_download_info' =
                [current_playlist_download_info EXCEPT
                    !.total_items = worker.n,
                    !.cancelled = IF worker.n > 0 /\ worker.tok \in cancel_set
                                  THEN TRUE ELSE @]
          /\ download_queue' =
                IF worker.n > 0 /\ worker.tok \in cancel_set
                THEN Append(download_queue, OtherMsg)
                ELSE download_queue
    /\ Len(download_queue') <= MaxChannel
    /\ worker' = [worker EXCEPT !.pc = "done"]
    /\ WorkerFrame

\* ---- the queue manager (main_app_window.py) -------------------------------
\* The handlers run on the Tk main thread, one at a time.  A handler works on
\* a record of the manager's fields; launched lists the requests it handed to
\* run_download_process_threaded_actual, crashed says an exception left it.
Mgr ==
    [active |-> current_active_download_id, cev |-> current_download_cancel_event,
     pend |-> pending_downloads, ui |-> active_downloads,
     info |-> current_playlist_download_info, launched |-> << >>, crashed |-> FALSE]

\* A full reset that keeps the stored token and the active id: a faulty variant.
ResetKeepingToken(m, is_full_reset) ==
    IF is_full_reset
    THEN [m EXCEPT !.pend = << >>, !.ui = {}, !.info = NoInfo]
    ELSE [m EXCEPT !.active = 0]

_reset_ui_on_download_completion(m, is_full_reset) ==
    IF is_full_reset
    THEN [m EXCEPT !.active = 0, !.cev = 0, !.pend = << >>, !.ui = {}, !.info = NoInfo]
    ELSE [m EXCEPT !.active = 0]

start_next_download_if_available(m) ==
    IF m.active = 0 /\ m.pend # << >>
    THEN [m EXCEPT !.pend = Tail(@), !.launched = Append(@, Head(m.pend))]
    ELSE IF m.active = 0 /\ m.pend = << >> /\ m.info.total_items = 0
         THEN _reset_ui_on_download_completion(m, TRUE)
         ELSE m

\* history_manager.update_history is reached with a payload whose file_path is
\* None (AttributeError on .split), or that has no "file_path" or no
\* "sub_indicator" key (KeyError).
HistoryCrash(msg) ==
    /\ msg.status \in {"completed", "failed"}
    /\ (msg.fp # "path" \/ ~msg.sub)

CountStatus(info, status) ==
    CASE status = "completed" -> [info EXCEPT !.completed_items = @ + 1]
      [] status = "failed" -> [info EXCEPT !.failed_items = @ + 1]
      [] status = "cancelled" -> [info EXCEPT !.cancelled = TRUE]
      [] OTHER -> info

OnAdded(m, msg) == [m EXCEPT !.ui = @ \cup {msg.id}, !.active = msg.id]

OnUpdate(m, msg) ==
    IF msg.id = m.active /\ msg.id \notin m.ui THEN [m EXCEPT !.crashed = TRUE] ELSE m

\* The standalone branch with the history update before the reset, so that an
\* exception of the update leaves the active id set: a faulty variant.
OnStatusHistoryFirst(m, msg) ==
    IF msg.playlist
    THEN LET m1 == [m EXCEPT !.info = CountStatus(@, msg.status)]
             processed == m1.info.completed_items + m1.info.failed_items
                          + m1.info.skipped_items
         IN  IF HistoryCrash(msg)
             THEN [m1 EXCEPT !.crashed = TRUE]
             ELSE IF m1.info.total_items > 0
                     /\ (processed = m1.info.total_items \/ m1.info.cancelled)
                  THEN _reset_ui_on_download_completion(m1, TRUE)
                  ELSE start_next_download_if_available(
                           [m1 EXCEPT !.ui = @ \ {msg.id}, !.active = 0])
    ELSE IF HistoryCrash(msg)
         THEN [m EXCEPT !.crashed = TRUE]
         ELSE _reset_ui_on_download_completion(m, TRUE)

OnStatus(m, msg) ==
    IF msg.playlist
    THEN LET m1 == [m EXCEPT !.info = CountStatus(@, msg.status)]
             processed == m1.info.completed_items + m1.info.failed_items
                          + m1.info.skipped_items
         IN  IF HistoryCrash(msg)
             THEN [m1 EXCEPT !.crashed = TRUE]
             ELSE IF m1.info.total_items > 0
                     /\ (processed = m1.info.total_items \/ m1.info.cancelled)
                  THEN _reset_ui_on_download_completion(m1, TRUE)
                  ELSE start_next_download_if_available(
                           [m1 EXCEPT !.ui = @ \ {msg.id}, !.active = 0])
    ELSE LET m1 == _reset_ui_on_download_completion(m, TRUE)
         IN  IF HistoryCrash(msg) THEN [m1 EXCEPT !.crashed = TRUE] ELSE m1

\* A loop that raises on a tag it does not know: a faulty variant.
OnMessageStrict(m, msg) ==
    CASE msg.tag = "ADDED" -> OnAdded(m, msg)
      [] msg.tag = "UPDATE" -> OnUpdate(m, msg)
      [] msg.tag = "STATUS" -> OnStatus(m, msg)
      [] OTHER -> [m EXCEPT !.crashed = TRUE]

OnMessage(m, msg) ==
    CASE msg.tag = "ADDED" -> OnAdded(m, msg)
      [] msg.tag = "UPDATE" -> OnUpdate(m, msg)
      [] msg.tag = "STATUS" -> OnStatus(m, msg)
      [] OTHER -> m

\* The get_nowait loop: messages are handled in order until the channel is
\* empty or a handler raises; rest is what stays on the channel.
RECURSIVE Drain(_, _)
Drain(q, m) ==
    IF q = << >> \/ m.crashed
    THEN [m |-> m, rest |-> q]
    ELSE Drain(Tail(q), OnMessage(m, Head(q)))

\* Writes the handler's record back and starts the threads it launched.
Commit(m) ==
    /\ njobs + Len(m.launched) <= MaxJobs
    /\ current_active_download_id' = m.active
    /\ current_download_cancel_event' = m.cev
    /\ pending_downloads' = m.pend
    /\ active_downloads' = m.ui
    /\ current_playlist_download_info' = m.info
    /\ njobs' = njobs + Len(m.launched)
    /\ job' = [j \in JobIds |->
                 IF j > njobs /\ j <= njobs + Len(m.launched)
                 THEN Launched(m.launched[j - njobs].tok, m.launched[j - njobs].playlist)
                 ELSE job[j]]

\* download_mode is url_input_type_var at the time of the trigger.  A trigger
\* that finds a job active only shows a dialog (no step).  The number of
\* triggers that start something is capped by MaxJobs and MaxPlaylist.
MaxClicks == MaxJobs + MaxPlaylist

on_download_button_click ==
    /\ ~(current_active_download_id # 0 \/ pending_downloads # << >>)
    /\ ntok < MaxClicks
    /\ ntok' = ntok + 1
    /\ \E download_mode \in {"Single URL", "Playlist URL"} :
          IF download_mode = "Single URL"
          THEN /\ Commit(start_next_download_if_available(
                      [_reset_ui_on_download_completion(Mgr, TRUE) EXCEPT
                          !.pend = << [tok |-> ntok + 1, playlist |-> FALSE] >>,
                          !.cev = ntok + 1]))
               /\ UNCHANGED worker
          ELSE /\ worker.pc \in {"idle", "done"}
               /\ worker.runs < MaxPlaylist
               /\ Commit([_reset_ui_on_download_completion(Mgr, TRUE) EXCEPT
                             !.cev = ntok + 1])
               /\ worker' = [pc |-> "fetch", tok |-> ntok + 1, n |-> 0,
                             runs |-> worker.runs + 1]
    /\ UNCHANGED << impl, download_subtitles, cancel_set, download_queue, poll_armed >>
    /\ UNCHANGED fn_vars

process_download_queue ==
    /\ poll_armed
    /\ download_queue # << >>
    /\ LET r == Drain(download_queue, Mgr)
       IN  /\ Commit(r.m)
           /\ download_queue' = r.rest
           /\ poll_armed' = ~r.m.crashed
    /\ UNCHANGED << impl, download_subtitles, ntok, cancel_set, worker >>
    /\ UNCHANGED fn_vars

\* ---- the application ------------------------------------------------------
Init ==
    /\ impl \in {"legacy", "core"}
    /\ download_subtitles \in BOOLEAN
    /\ job = [j \in JobIds |-> NoJob]
    /\ njobs = 0
    /\ ntok = 0
    /\ cancel_set = {}
    /\ download_queue = << >>
    /\ pending_downloads = << >>
    /\ current_active_download_id = 0
    /\ current_download_cancel_event = 0
    /\ active_downloads = {}
    /\ current_playlist_download_info = NoInfo
    /\ worker = [pc |-> "idle", tok |-> 0, n |-> 0, runs |-> 0]
    /\ poll_armed = TRUE
    /\ call = NoCall
    /\ ret = NoCall

Next ==
    \/ on_download_button_click
    \/ on_cancel_download_click
    \/ process_download_queue
    \/ \E j \in JobIds : job_added(j)
    \/ \E j \in JobIds : job_update(j)
    \/ \E j \in JobIds : job_terminal(j)
    \/ _fetch_playlist_urls
    \/ playlist_download_worker

Spec == Init /\ [][Next]_vars

\* ---- pure functions of the controllers -------------------------------------
\* FnSpec calls the line parser, the error classifier and the command builder
\* on arguments drawn from bounded sets; call and ret hold the last call.
prog_vars == << impl, download_subtitles, job, njobs, ntok, cancel_set, download_queue,
                pending_downloads, current_active_download_id,
                current_download_cancel_event, active_downloads,
                current_playlist_download_info, worker, poll_armed >>

\* ---- the progress line parser ---------------------------------------------
\* A line the progress pattern matches is "[download] <tok>% of <rest>", where
\* tok is what ([\d\.]+) captured: a non-empty string of digits and dots.
MaxPct == 3         \* characters of the percentage field of a progress line

PctChars == {"0", "1", "9", "."}

PercentTokens == UNION {[1..n -> PctChars] : n \in 1..MaxPct}

\* What follows "of " on the line.  The lazy .*? and the optional groups make
\* the pattern capture a speed only when "at <speed>" comes right after "of ",
\* and an ETA only when "ETA <text>" comes right after that; "size" is the
\* line yt-dlp writes ("of 10MiB at 1MiB/s ETA 00:05"), where both are None.
RestKinds == {"size", "at", "eta", "at_eta"}

RECURSIVE Pow10(_)
Pow10(n) == IF n = 0 THEN 1 ELSE 10 * Pow10(n - 1)

\* progress_percent is kept as an integer number of 1/PctScale.
PctScale == Pow10(MaxPct)

DigitVal(c) == CASE c = "0" -> 0 [] c = "1" -> 1 [] c = "9" -> 9

RECURSIVE Digits(_)
Digits(d) ==
    IF d = << >> THEN 0
    ELSE 10 * Digits(SubSeq(d, 1, Len(d) - 1)) + DigitVal(d[Len(d)])

\* Python's float() on a string of digits and dots: ValueError unless it has
\* a digit and at most one dot ("1." and ".5" are floats, "." and "1.2.3" not).
float(tok) ==
    LET dots == {i \in DOMAIN tok : tok[i] = "."}
    IN  IF Cardinality(dots) > 1 \/ Cardinality(dots) = Len(tok)
        THEN [exc |-> "ValueError", val |-> 0]
        ELSE LET p == IF dots = {} THEN Len(tok) + 1 ELSE CHOOSE i \in dots : TRUE
                 whole == SubSeq(tok, 1, p - 1)
                 frac == SubSeq(tok, p + 1, Len(tok))
             IN  [exc |-> "none",
                  val |-> Digits(whole) * PctScale
                          + Digits(frac) * Pow10(MaxPct - Len(frac))]

\* The body of "if progress_match:" in both controllers: the payload of the
\* UPDATE event, or the exception that leaves the loop iteration.
progress_update(tok, rest) ==
    LET percent == float(tok)
    IN  [exc |-> percent.exc,
         progress_percent |-> percent.val,
         speed |-> IF rest \in {"at", "at_eta"} THEN "text" ELSE "N/A",
         eta |-> IF rest \in {"eta", "at_eta"} THEN "text" ELSE "N/A"]

ProgressCalls ==
    {[fn |-> "progress_update", tok |-> tok, rest |-> rest] :
        tok \in PercentTokens, rest \in RestKinds}

progress_line ==
    /\ call.fn = "progress_update"
    /\ ret = NoCall
    /\ ret' = progress_update(call.tok, call.rest)
    /\ UNCHANGED call
    /\ UNCHANGED prog_vars

\* ---- the error classifier --------------------------------------------------
\* A string is known by where it lies in the text after "ERROR:" (skip
\* characters in), its length and the number of whitespace characters it
\* starts with.  The collected lines are stripped, so it ends in no whitespace.
ErrorTextLimit == 150

strip(str) == [skip |-> str.skip + str.lead, len |-> str.len - str.lead, lead |-> 0]

\* str[:n]
Slice(str, n) ==
    IF str.len <= n THEN str
    ELSE [str EXCEPT !.len = n, !.lead = IF str.lead > n THEN n ELSE @]

EmptyStr == [skip |-> 0, len |-> 0, lead |-> 0]

\* The table: keys are the alternatives of the row's pattern
\* "ERROR:.*(?:k1|k2|...)" (matched ignoring case); the last row is "ERROR:(.*)".
YT_DLP_ERROR_PATTERNS ==
    << [keys |-> {"video is unavailable", "This video is not available",
                  "unavailable in your country"},
        message |-> "Video Unavailable"],
       [keys |-> {"age-restricted"}, message |-> "Age-Restricted Video"],
       [keys |-> {"private video", "requires login"}, message |-> "Login/Private Video"],
       [keys |-> {"The uploader has not made this video available in your country",
                  "geo-restricted"},
        message |-> "Geo-Restricted"],
       [keys |-> {"no video formats found", "no audio formats found"},
        message |-> "No Formats Found"],
       [keys |-> {"Too Many Requests", "429"}, message |-> "Rate Limit Exceeded"],
       [keys |-> {"The playlist is empty"}, message |-> "Empty Playlist"],
       [keys |-> {"VPN detected", "Sorry for the interruption", "Try again later"},
        message |-> "VPN/Bot Detection"],
       [keys |-> {"Could not download WebPage", "HTTP Error 404", "403", "400"},
        message |-> "Network/URL Error"],
       [keys |-> {"Unsupported URL"}, message |-> "Unsupported URL"],
       [keys |-> {"Unknown host"}, message |-> "Network Error"],
       [keys |-> {}, message |-> "yt-dlp Error: Check log for details."] >>

CatchAll == Len(YT_DLP_ERROR_PATTERNS)

\* A collected output line: error, it contains "ERROR:" (in any case); lead and
\* len, the whitespace after that "ERROR:" and the length of the text after the
\* whitespace up to the end of the line; has, the pattern keys in that text (on
\* a line without "ERROR:", the keys on the line); warn, the line contains
\* "warning" or "fail".
MaxDiag == 2        \* collected output lines handed to the classifier

KeySample == {"This video is not available", "age-restricted", "403"}

DiagLines ==
    {[error |-> TRUE, warn |-> FALSE, lead |-> lead, len |-> len, has |-> has] :
        lead \in {0, 1},
        len \in {0, 1, ErrorTextLimit - 1, ErrorTextLimit, ErrorTextLimit + 1},
        has \in SUBSET KeySample}
    \cup {[error |-> FALSE, warn |-> warn, lead |-> 0, len |-> 0, has |-> has] :
            warn \in BOOLEAN, has \in {{}, {"This video is not available"}}}

\* A text shorter than a key holds no key, and a stripped line that ends with
\* "ERROR:" has no whitespace after it.
WellFormedLine(line) ==
    /\ (line.error /\ line.has # {}) => line.len >= ErrorTextLimit - 1
    /\ line.len = 0 => line.lead = 0

DiagTexts ==
    {t \in UNION {[1..n -> DiagLines] : n \in 0..MaxDiag} :
        \A i \in DOMAIN t : WellFormedLine(t[i])}

\* "error" in line.lower() or "warning" in line.lower() or "fail" in line.lower()
Relevant(line) == line.error \/ line.warn

\* Patterns that look for their key anywhere, without the leading "ERROR:": a
\* faulty variant.
PatternSearchWithoutPrefix(r, lines) ==
    IF r = CatchAll
    THEN \E i \in DOMAIN lines : lines[i].error
    ELSE \E i \in DOMAIN lines : lines[i].has \cap YT_DLP_ERROR_PATTERNS[r].keys # {}

\* pattern.search(full_output_string) for row r: "." matches no newline, so a
\* pattern matches within one line, the key after the "ERROR:".
pattern_search(r, lines) ==
    IF r = CatchAll
    THEN \E i \in DOMAIN lines : lines[i].error
    ELSE \E i \in DOMAIN lines :
            lines[i].error /\ lines[i].has \cap YT_DLP_ERROR_PATTERNS[r].keys # {}

\* match.group(1) of the last row: the leftmost "ERROR:" up to its line's end.
group1(lines) ==
    LET i == CHOOSE i \in DOMAIN lines :
                 lines[i].error /\ \A k \in 1..(i - 1) : ~lines[k].error
    IN  [skip |-> 0, len |-> lines[i].lead + lines[i].len, lead |-> lines[i].lead]

\* What the classifier returns: row 0 is None; text and ellipsis are what
\* follows the message (the empty string and no "..." for a table message).
NoneMsg == [row |-> 0, message |-> "", text |-> EmptyStr, ellipsis |-> FALSE]

RowMsg(r) ==
    [row |-> r, message |-> YT_DLP_ERROR_PATTERNS[r].message, text |-> EmptyStr,
     ellipsis |-> FALSE]

\* The catch-all without its "..." after a cut text: a faulty variant.
CapturedWithoutEllipsis(captured_error_text) ==
    IF captured_error_text.len > 0
    THEN [row |-> CatchAll, message |-> "yt-dlp Error: ",
          text |-> Slice(captured_error_text, ErrorTextLimit), ellipsis |-> FALSE]
    ELSE RowMsg(CatchAll)

captured_error_message(captured_error_text) ==
    IF captured_error_text.len > 0
    THEN [row |-> CatchAll, message |-> "yt-dlp Error: ",
          text |-> Slice(captured_error_text, ErrorTextLimit),
          ellipsis |-> captured_error_text.len > ErrorTextLimit]
    ELSE RowMsg(CatchAll)

\* for pattern, message in YT_DLP_ERROR_PATTERNS: from row r on.
RECURSIVE match_rows(_, _)
match_rows(r, lines) ==
    IF r > CatchAll THEN NoneMsg
    ELSE IF pattern_search(r, lines)
         THEN IF r = CatchAll
              THEN captured_error_message(strip(group1(lines)))
              ELSE RowMsg(r)
         ELSE match_rows(r + 1, lines)

\* output_lines[-n:]
LastLines(output_lines, n) ==
    IF Len(output_lines) <= n THEN output_lines
    ELSE SubSeq(output_lines, Len(output_lines) - n + 1, Len(output_lines))

FallbackLines == 10

RelevantWindow == 500

\* A classifier that looks for the first line some row matches, instead of the
\* first row some line matches: a faulty variant.
ParseLineByLine(output_lines) ==
    LET hit == {i \in DOMAIN output_lines : output_lines[i].error}
    IN  IF hit = {} THEN NoneMsg
        ELSE LET i == CHOOSE i \in hit : \A k \in hit : i <= k
             IN  match_rows(1, << output_lines[i] >>)

\* download_logic.parse_yt_dlp_error
parse_yt_dlp_error(output_lines) ==
    LET filtered == SelectSeq(output_lines, Relevant)
    IN  match_rows(1, IF filtered = << >> THEN LastLines(output_lines, FallbackLines)
                      ELSE filtered)

\* subprocess_output_processor._parse_yt_dlp_error_internal
_parse_yt_dlp_error_internal(output_lines) ==
    LET relevant_lines == LastLines(output_lines, RelevantWindow)
        filtered == SelectSeq(relevant_lines, Relevant)
    IN  match_rows(1, IF filtered = << >> THEN relevant_lines ELSE filtered)

ClassifierCalls == {[fn |-> "parse_yt_dlp_error", lines |-> t] : t \in DiagTexts}

classify ==
    /\ call.fn = "parse_yt_dlp_error"
    /\ ret = NoCall
    /\ ret' = IF impl = "legacy" THEN parse_yt_dlp_error(call.lines)
              ELSE _parse_yt_dlp_error_internal(call.lines)
    /\ UNCHANGED call
    /\ UNCHANGED prog_vars

\* ---- the command builder ---------------------------------------------------
\* str.lower() on the sample strings.
lower(str) ==
    CASE str = "Best" -> "best"
      [] str = "ALL" -> "all"
      [] str = "Video" -> "video"
      [] str = "Audio" -> "audio"
      [] OTHER -> str

Requests ==
    [url : {"https://host/v"}, platform : {"youtube", "instagram", "other"},
     download_type : {"Video", "Audio"}, download_dir : {"/downloads"},
     selected_format_code : {"", "best", "Best", "137"},
     download_subtitles : BOOLEAN, subtitle_languages : {"", "ALL", "en"},
     embed_subtitles : BOOLEAN]

\* Where _get_yt_dlp_command_base finds a yt-dlp executable when it looks
\* (os.path.exists on the bundle or the Scripts directory): the state of the
\* file system at the time of the call.
Found == {"none", "yt-dlp.exe", "yt-dlp"}

None == << "None" >>

_get_yt_dlp_command_base(frozen, found) ==
    IF frozen
    THEN IF found = "none" THEN None ELSE << "sys._MEIPASS/" \o found >>
    ELSE IF found = "none" THEN << "sys.executable", "-m", "yt_dlp" >>
         ELSE << "Scripts/" \o found >>

output_template_base(req) ==
    IF req.platform \in {"instagram", "tiktok"}
    THEN "%(uploader)s - %(title)s.%(ext)s"
    ELSE "%(title)s.%(ext)s"

\* subtitle_args comparing the language spec with "all" as written, without
\* lower(): a faulty variant that C34_SubtitleFlagsFollowRequest has to reject.
SubtitleArgsCaseSensitive(req) ==
    IF req.download_subtitles
    THEN << "--write-subs" >>
         \o (IF req.subtitle_languages = "all"
             THEN << "--all-subs" >>
             ELSE IF req.subtitle_languages # ""
                  THEN << "--sub-lang", req.subtitle_languages >>
                  ELSE << >>)
         \o (IF req.embed_subtitles THEN << "--embed-subs" >> ELSE << >>)
    ELSE << >>

subtitle_args(req) ==
    IF req.download_subtitles
    THEN << "--write-subs" >>
         \o (IF req.subtitle_languages # "" /\ lower(req.subtitle_languages) = "all"
             THEN << "--all-subs" >>
             ELSE IF req.subtitle_languages # ""
                  THEN << "--sub-lang", req.subtitle_languages >>
                  ELSE << >>)
         \o (IF req.embed_subtitles THEN << "--embed-subs" >> ELSE << >>)
    ELSE << >>

\* command_tail comparing the format code with "best" as written, without
\* lower(): a faulty variant that C33_FormatOptionFollowsSelector has to reject.
CommandTailCaseSensitive(req, video_default) ==
    LET chosen == req.selected_format_code # "" /\ req.selected_format_code # "best"
        format_options ==
            IF chosen THEN << "-f", req.selected_format_code >>
            ELSE IF req.download_type = "Audio"
                 THEN << "-f", "bestaudio[ext=m4a]/bestaudio", "--extract-audio",
                         "--audio-format", "m4a" >>
                 ELSE << "-f", video_default, "--merge-output-format", "mp4" >>
        additional_args ==
            << "--no-warnings", "--write-thumbnail", "--convert-thumbnails", "jpg",
               "--print-json" >>
            \o (IF chosen /\ req.download_type = "Video"
                THEN << "--merge-output-format", "mp4" >> ELSE << >>)
            \o subtitle_args(req)
    IN  format_options \o << "-P", req.download_dir, "-o", output_template_base(req) >>
        \o additional_args \o << req.url >>

\* format_options and additional_args; video_default is the selector of the
\* "else" branch for a video without a format code.
command_tail(req, video_default) ==
    LET chosen == req.selected_format_code # "" /\ lower(req.selected_format_code) # "best"
        format_options ==
            IF chosen THEN << "-f", req.selected_format_code >>
            ELSE IF req.download_type = "Audio"
                 THEN << "-f", "bestaudio[ext=m4a]/bestaudio", "--extract-audio",
                         "--audio-format", "m4a" >>
                 ELSE << "-f", video_default, "--merge-output-format", "mp4" >>
        additional_args ==
            << "--no-warnings", "--write-thumbnail", "--convert-thumbnails", "jpg",
               "--print-json" >>
            \o (IF chosen /\ req.download_type = "Video"
                THEN << "--merge-output-format", "mp4" >> ELSE << >>)
            \o subtitle_args(req)
    IN  format_options \o << "-P", req.download_dir, "-o", output_template_base(req) >>
        \o additional_args \o << req.url >>

YoutubeDefault == "bestvideo[ext=mp4][vcodec^=avc]+bestaudio[ext=m4a]/best[ext=mp4]/best"

\* download_logic.run_download_process, lines 300-336
legacy_command(req) ==
    << "sys.executable", "-m", "yt_dlp" >>
    \o command_tail(req, IF req.platform = "youtube" THEN YoutubeDefault
                         ELSE "bestvideo+bestaudio/best")

\* download_process_core.run_download_process, lines 234-295
core_command(req, frozen, found) ==
    LET command_base == _get_yt_dlp_command_base(frozen, found)
    IN  IF command_base = None THEN None
        ELSE command_base \o command_tail(req, YoutubeDefault)

\* frozen (sys.frozen with sys._MEIPASS) is fixed for the life of the program.
BuilderCalls ==
    {[fn |-> "build_command", req |-> req, frozen |-> frozen] :
        req \in Requests, frozen \in BOOLEAN}

\* One invocation of the builder for the request of the call; the same
\* request can be built again.
build_command ==
    /\ call.fn = "build_command"
    /\ \E found \in Found :
          ret' = [command |-> IF impl = "legacy" THEN legacy_command(call.req)
                              ELSE core_command(call.req, call.frozen, found)]
    /\ UNCHANGED call
    /\ UNCHANGED prog_vars

\* ---- the message of a failed job ---------------------------------------------
GenericExitMsg(return_code) ==
    [row |-> 0, message |-> "yt-dlp exited with code " \o ToString(return_code)
                            \o ". Check log for details.",
     text |-> EmptyStr, ellipsis |-> FALSE]

\* Python's truth value of the classifier's result: None and "" are false.
Truthy(msg) == msg # NoneMsg /\ (msg.message # "" \/ msg.text.len > 0)

\* The message taken as it comes from the classifier: a faulty variant.
FinalMessageUnchecked(specific_error, return_code) == specific_error

\* specific_error if specific_error else f"yt-dlp exited with code {return_code}..."
final_message(specific_error, return_code) ==
    IF Truthy(specific_error) THEN specific_error ELSE GenericExitMsg(return_code)

\* ---- the choice of the thumbnail helper -----------------------------------------
\* Which helper a completed job calls: "None" when the .jpg written by yt-dlp
\* exists (sibling), otherwise the helper each controller selects.
\* download_logic.py tests item_type_for_history = download_type.lower();
\* download_process_core.py tests download_type == "video" on the type as given.
thumbnail_helper(controller, sibling, download_type) ==
    IF sibling THEN "None"
    ELSE IF controller = "legacy"
         THEN CASE lower(download_type) = "audio" -> "extract_album_art_logic"
                [] lower(download_type) = "video" -> "generate_thumbnail_from_video_logic"
                [] OTHER -> "None"
         ELSE IF download_type = "video"
              THEN "generate_thumbnail_from_video_logic"
              ELSE "extract_album_art_logic"

ThumbnailCalls ==
    {[fn |-> "thumbnail", sibling |-> t, download_type |-> d, tool |-> o] :
        t \in BOOLEAN, d \in DownloadTypes, o \in ToolOutcomes}

\* The thumbnail step of a completed job whose file exists.
choose_thumbnail ==
    /\ call.fn = "thumbnail"
    /\ ret' = [helper |-> thumbnail_helper(impl, call.sibling, call.download_type),
               thumbnail_path |->
                   IF impl = "legacy"
                   THEN legacy_thumbnail(call.sibling, call.download_type, call.tool)
                   ELSE core_thumbnail(call.sibling, call.download_type, call.tool)]
    /\ UNCHANGED call
    /\ UNCHANGED prog_vars

FnCalls == ProgressCalls \cup ClassifierCalls \cup BuilderCalls \cup ThumbnailCalls

FnInit ==
    /\ impl \in {"legacy", "core"}
    /\ download_subtitles = FALSE
    /\ job = [j \in JobIds |-> NoJob]
    /\ njobs = 0
    /\ ntok = 0
    /\ cancel_set = {}
    /\ download_queue = << >>
    /\ pending_downloads = << >>
    /\ current_active_download_id = 0
    /\ current_download_cancel_event = 0
    /\ active_downloads = {}
    /\ current_playlist_download_info = NoInfo
    /\ worker = [pc |-> "idle", tok |-> 0, n |-> 0, runs |-> 0]
    /\ poll_armed = TRUE
    /\ call \in FnCalls
    /\ ret = NoCall

FnNext ==
    \/ progress_line
    \/ classify
    \/ build_command
    \/ choose_thumbnail

FnSpec == FnInit /\ [][FnNext]_vars

\* ---- the interpreter of output lines ----------------------------------------
\* ReadSpec runs the line handling of the two read loops over a sequence of
\* output lines drawn in ReadInit; call holds the lines the process writes, ret
\* the state of the interpreter after the lines read so far.
MaxRead == 3        \* output lines of one short run of the process

MAX_OUTPUT_LINES_FOR_ERROR_PARSE == 1000

\* final_filename_with_path = None
NoPath == "None"

\* The lines the process writes, by what the read loops look for in them; arg
\* is the file name on the line ("" when the line names none).
\*   blank        a line that is empty after strip()
\*   json         {...} holding a JSON object with a title; arg its "filepath"
\*   braces       {...} that is not JSON
\*   progress     "[download] <arg>% of ..."
\*   merge        contains "Merging formats into"; arg the name between quotes
\*   extract      "Extracting audio to <arg>"
\*   destination  "Destination: <arg>"
\*   plain        any other line of stdout
\*   stderr       a line the process writes to stderr
OutputLines ==
    {[kind |-> "blank", arg |-> ""],
     [kind |-> "json", arg |-> "meta.webm"],
     [kind |-> "json", arg |-> ""],
     [kind |-> "braces", arg |-> ""],
     [kind |-> "progress", arg |-> "1"],
     [kind |-> "progress", arg |-> "."],
     [kind |-> "merge", arg |-> "./final.mp4"],
     [kind |-> "merge", arg |-> ""],
     [kind |-> "extract", arg |-> "audio.m4a"],
     [kind |-> "destination", arg |-> "video.f137.mp4"],
     [kind |-> "destination", arg |-> "video.mp4.part"],
     [kind |-> "plain", arg |-> ""],
     [kind |-> "stderr", arg |-> ""]}

\* The characters of a percentage field.
Chars(str) == IF str = "." THEN << "." >> ELSE << "1" >>

\* os.path.normpath on the sample names.
normpath(path) ==
    CASE path = "./final.mp4" -> "final.mp4"
      [] path = "" -> "."
      [] OTHER -> path

\* potential_fn.lower().endswith((".part", ".ytdl")) on the sample names.
endswith_part_or_ytdl(path) == path = "video.mp4.part"

\* The interpreter before the first line.  pos: lines taken from the pipes.
\* exc: the exception that left the loop.  output_lines: the diagnostic
\* buffer, log: the log strings put on the channel, updates: the UPDATE
\* events put; a line is named by its number in the output.
NewReader ==
    [pos |-> 0, exc |-> "none", download_title |-> "url",
     final_filename_with_path |-> NoPath, output_lines |-> << >>,
     log |-> << >>, updates |-> << >>]

\* A metadata line without a file path that clears the path: a faulty variant.
MetadataPathUnguarded(path, filepath) ==
    IF filepath # "" THEN normpath(filepath) ELSE NoPath

\* The path after a valid metadata line of the core reader.
metadata_path(path, filepath) ==
    IF filepath # "" THEN normpath(filepath) ELSE path

\* The marker tests with a Destination test that does not ask whether a path
\* is known: a faulty variant.
MarkersWithoutPathTest(path, line) ==
    CASE line.kind \in {"merge", "extract"} ->
            IF line.arg # "" THEN normpath(line.arg) ELSE path
      [] line.kind = "destination" ->
            IF line.arg # "" /\ ~endswith_part_or_ytdl(normpath(line.arg))
            THEN normpath(line.arg) ELSE path
      [] OTHER -> path

\* The path after the Merging / Extracting / Destination tests of
\* download_logic.py.
filename_markers(path, line) ==
    CASE line.kind = "merge" -> IF line.arg # "" THEN normpath(line.arg) ELSE path
      [] line.kind = "extract" -> IF line.arg # "" THEN normpath(line.arg) ELSE path
      [] line.kind = "destination" /\ path = NoPath ->
            IF line.arg # "" /\ ~endswith_part_or_ytdl(normpath(line.arg))
            THEN normpath(line.arg) ELSE path
      [] OTHER -> path

\* The same tests of SubprocessOutputProcessor._read_stream, which has no
\* Destination test.
_read_stream_markers(path, line) ==
    CASE line.kind \in {"merge", "extract"} ->
            IF line.arg # "" THEN normpath(line.arg) ELSE path
      [] OTHER -> path

LogPut(s, n, stream_name) ==
    [s EXCEPT !.log = Append(@, [line |-> n, stream_name |-> stream_name])]

\* The body of the while loop of download_logic.run_download_process for line
\* number n.  json is not imported there: json.loads raises NameError on every
\* {...} line, and so does the except clause that names json.JSONDecodeError.
read_loop_body(s, n, line) ==
    IF line.kind = "blank" THEN s
    ELSE LET s1 == [s EXCEPT !.output_lines = Append(@, n)]
         IN  IF line.kind \in {"json", "braces"}
             THEN [s1 EXCEPT !.exc = "NameError"]
             ELSE LET s2 == [s1 EXCEPT !.final_filename_with_path =
                                           filename_markers(@, line)]
                  IN  IF line.kind = "progress"
                      THEN LET u == progress_update(Chars(line.arg), "size")
                           IN  IF u.exc # "none" THEN [s2 EXCEPT !.exc = u.exc]
                               ELSE LogPut([s2 EXCEPT !.updates =
                                               Append(@, [line |-> n, kind |-> "progress"])],
                                           n, "")
                      ELSE LogPut(s2, n, "")

\* The body of the for loop of SubprocessOutputProcessor._read_stream for line
\* number n; the two reader threads append to the one buffer under _output_lock.
_read_stream_body(s, n, line) ==
    IF line.kind = "blank" THEN s
    ELSE LET full == Append(s.output_lines, n)
             s1 == [s EXCEPT !.output_lines =
                        IF Len(full) > MAX_OUTPUT_LINES_FOR_ERROR_PARSE
                        THEN Tail(full) ELSE full]
         IN  CASE line.kind = "stderr" -> LogPut(s1, n, "stderr")
               [] line.kind = "json" ->
                     [s1 EXCEPT !.download_title = "metadata",
                                !.final_filename_with_path = metadata_path(@, line.arg),
                                !.updates = Append(@, [line |-> n, kind |-> "title"])]
               [] line.kind = "progress" ->
                     LET u == progress_update(Chars(line.arg), "size")
                     IN  IF u.exc # "none" THEN [s1 EXCEPT !.exc = u.exc]
                         ELSE [s1 EXCEPT !.updates =
                                  Append(@, [line |-> n, kind |-> "progress"])]
               [] OTHER ->
                     LogPut([s1 EXCEPT !.final_filename_with_path =
                                           _read_stream_markers(@, line)],
                            n, "stdout")

\* One line taken from the pipe and handled.
ReadLine(s, line) ==
    [(IF impl = "legacy" THEN read_loop_body(s, s.pos + 1, line)
      ELSE _read_stream_body(s, s.pos + 1, line)) EXCEPT !.pos = s.pos + 1]

\* The loop over all the lines, until an exception leaves it.
RECURSIVE ReadAll(_, _)
ReadAll(s, lines) ==
    IF lines = << >> \/ s.exc # "none" THEN s
    ELSE ReadAll(ReadLine(s, Head(lines)), Tail(lines))

\* A run that writes one line more than the buffer of the core reader holds.
LongRun ==
    [i \in 1..(MAX_OUTPUT_LINES_FOR_ERROR_PARSE + 1) |-> [kind |-> "plain", arg |-> ""]]

ReadCalls ==
    {[fn |-> "read_lines", lines |-> t] :
        t \in UNION {[1..n -> OutputLines] : n \in 0..MaxRead} \cup {LongRun}}

ReadInit ==
    /\ impl \in {"legacy", "core"}
    /\ download_subtitles = FALSE
    /\ job = [j \in JobIds |-> NoJob]
    /\ njobs = 0
    /\ ntok = 0
    /\ cancel_set = {}
    /\ download_queue = << >>
    /\ pending_downloads = << >>
    /\ current_active_download_id = 0
    /\ current_download_cancel_event = 0
    /\ active_downloads = {}
    /\ current_playlist_download_info = NoInfo
    /\ worker = [pc |-> "idle", tok |-> 0, n |-> 0, runs |-> 0]
    /\ poll_armed = TRUE
    /\ call \in ReadCalls
    /\ ret = NewReader

rdp_line ==
    /\ impl = "legacy"
    /\ ret.exc = "none"
    /\ ret.pos < Len(call.lines)
    /\ ret' = ReadLine(ret, call.lines[ret.pos + 1])
    /\ UNCHANGED call
    /\ UNCHANGED prog_vars

_read_stream_line ==
    /\ impl = "core"
    /\ ret.exc = "none"
    /\ ret.pos < Len(call.lines)
    /\ ret' = ReadLine(ret, call.lines[ret.pos + 1])
    /\ UNCHANGED call
    /\ UNCHANGED prog_vars

ReadNext ==
    \/ rdp_line
    \/ _read_stream_line

ReadSpec == ReadInit /\ [][ReadNext]_vars

\* ---- properties of one job (JobSpec, JobFairSpec) -------------------------
\* In JobSpec nothing consumes the channel, so download_queue is the history
\* of all events of the job.
Events(j, tag) ==
    {i \in DOMAIN download_queue :
        download_queue[i].tag = tag /\ download_queue[i].id = j}

Statuses(j) == {download_queue[i].status : i \in Events(j, "STATUS")}

\* Every STATUS a controller emits is one the queue manager's view of a job allows.
JobOutcomesCoverControllers ==
    \A j \in JobIds : \A i \in Events(j, "STATUS") : download_queue[i] \in JobOutcomes(j)

\* No controller emits two ADDED or two STATUS events for one id.
AtMostOneTerminal ==
    \A j \in JobIds :
        Cardinality(Events(j, "ADDED")) <= 1 /\ Cardinality(Events(j, "STATUS")) <= 1

\* C1: every launched request gets exactly one ADDED and, eventually, exactly
\* one terminal STATUS event with its id; here on the cancellation path: once
\* the token of a launched job is set, its terminal event is eventually on the
\* channel.
C1_CancelledJobGetsTerminalEvent ==
    \A j \in JobIds :
        (job[j].pc # "idle" /\ job[j].tok \in cancel_set)
            ~> (Cardinality(Events(j, "STATUS")) = 1)

\* C3: a cancelled STATUS event is on the channel only when the job's process
\* has exited.
C3_CancelledOnlyAfterExit ==
    \A j \in JobIds : "cancelled" \in Statuses(j) => ~Alive(j)

\* C4: a terminal event emitted while the token is set and the process is
\* still running (it ignored terminate, or was never signalled) is cancelled.
C4_CancelWhileRunningYieldsCancelled ==
    [][\A j \in JobIds :
          (/\ job[j].tok \in cancel_set
           /\ job[j].proc = "run"
           /\ Events(j, "STATUS") = {}
           /\ Statuses(j)' # {})
          => Statuses(j)' = {"cancelled"}]_vars

\* C5: once the token is set while the process runs, the process is eventually
\* stopped and the terminal event emitted, whatever the process does.
C5_CancellationEventuallyEffective ==
    \A j \in JobIds :
        (job[j].tok \in cancel_set /\ job[j].proc = "run")
            ~> (~Alive(j) /\ Statuses(j) # {})

C7_UpdatesPrecedeTerminal ==
    \A j \in JobIds : \A s \in Events(j, "STATUS") : \A u \in Events(j, "UPDATE") : u < s

\* C10: a job whose read loop raised an exception, and that nobody cancelled,
\* ends with exactly one terminal event, and that event is failed.
C10_LoopExceptionYieldsOneFailed ==
    \A j \in JobIds :
        (job[j].rd = "dead" /\ job[j].pc = "done" /\ job[j].tok \notin cancel_set)
            => (Cardinality(Events(j, "STATUS")) = 1 /\ Statuses(j) = {"failed"})

\* C16: a terminal status computed while the token is set is cancelled, also
\* when the process has already exited on its own by then: here the status
\* computation that follows the read loop (pc "post") or the joins (pc
\* "final") of a process that has exited.
C16_CancelBeforeStatusYieldsCancelled ==
    [][\A j \in JobIds :
          (/\ job[j].tok \in cancel_set
           /\ job[j].proc = "exit"
           /\ job[j].pc \in {"post", "final"}
           /\ Events(j, "STATUS") = {}
           /\ Statuses(j)' # {})
          => Statuses(j)' = {"cancelled"}]_vars

\* What the classifiers return: None, the message of a row, or the catch-all
\* with a stripped, non-empty text (ClassifierRange checks it under FnSpec).
ClassifierResults ==
    {NoneMsg} \cup {RowMsg(r) : r \in 1..CatchAll}
    \cup {captured_error_message([skip |-> k, len |-> n, lead |-> 0]) :
             k \in {0, 1}, n \in 1..(ErrorTextLimit + 1)}

LaunchFailed(j) == job[j].pc = "done" /\ job[j].proc = "none"

\* C18: a job whose executable was not found has put exactly one terminal
\* event, failed, in the step that found it out; no reader thread was started
\* and no progress event was put.
C18_MissingExecutableYieldsFailed ==
    \A j \in JobIds :
        LaunchFailed(j) =>
            /\ Cardinality(Events(j, "STATUS")) = 1
            /\ Statuses(j) = {"failed"}
            /\ job[j].rd = "none"
            /\ Events(j, "UPDATE") = {}

C18_Witness ==
    /\ impl = "core"
    /\ LaunchFailed(1)
    /\ Statuses(1) = {"failed"}
    /\ \E i \in Events(1, "STATUS") : download_queue[i].fp = "none"

\* C19: a job whose finalization steps were entered is reported completed with
\* its file path, whatever became of the steps.
C19_FinalizationKeepsCompleted ==
    \A j \in JobIds :
        job[j].finalized =>
            \A i \in Events(j, "STATUS") :
                download_queue[i].status = "completed" /\ download_queue[i].fp = "path"

\* ---- properties of the queue manager (Spec) --------------------------------
\* A job is running from its launch until it has put its terminal event.
Running(j) == job[j].pc \in {"start", "running"}

\* C2: at most one launched job is running.
C2_AtMostOneJobRunning == Cardinality({j \in JobIds : Running(j)}) <= 1

\* Between two handlers of the main thread the pending queue is empty, and no
\* job is ever launched for a playlist entry.
PendingEmptyBetweenHandlers ==
    /\ pending_downloads = << >>
    /\ \A j \in JobIds : ~job[j].playlist

IsPlaylistRequest(r) == r.playlist

\* The playlist entries waiting for their launch: requests of the pending
\* queue, and ADDED messages of the playlist worker still on the channel.
QueuedEntries ==
    Len(SelectSeq(pending_downloads, IsPlaylistRequest))
    + Cardinality({i \in DOMAIN download_queue :
                      download_queue[i].tag = "ADDED" /\ download_queue[i].playlist})

\* C22: when the playlist worker ends its queuing loop over the entries it
\* fetched, and the shared token is not set, every fetched entry has been
\* handed over as a request: as many entries as were fetched are waiting for
\* their launch.
C22_EveryFetchedEntryIsQueued ==
    [][(/\ worker.pc = "urls"
        /\ worker.n > 0
        /\ worker.tok \notin cancel_set
        /\ worker'.pc = "done")
       => QueuedEntries' >= worker.n]_vars

\* ---- properties of the pure functions (FnSpec) ------------------------------
Returned(fn) == call.fn = fn /\ ret # NoCall

\* C11: every progress event carries a progress_percent between 0 and 100,
\* also when the percentage on the line is above 100.
C11_ProgressPercentWithinRange ==
    (Returned("progress_update") /\ ret.exc = "none")
        => (0 <= ret.progress_percent /\ ret.progress_percent <= 100 * PctScale)

\* C12: a progress line with a malformed numeric field raises nothing: an
\* event is produced for it and the loop goes on to the next line.
C12_MalformedFieldRaisesNothing ==
    Returned("progress_update") => ret.exc = "none"

\* Every result of a classifier is one of ClassifierResults.
ClassifierRange == Returned("parse_yt_dlp_error") => ret \in ClassifierResults

\* The rows whose pattern matches some collected line, whatever the line's
\* place in the output.
MatchingRows(lines) ==
    {r \in 1..CatchAll : \E i \in DOMAIN lines : pattern_search(r, << lines[i] >>)}

Reverse(q) == [i \in DOMAIN q |-> q[Len(q) + 1 - i]]

Classify(lines) ==
    IF impl = "legacy" THEN parse_yt_dlp_error(lines)
    ELSE _parse_yt_dlp_error_internal(lines)

RawPayload(lines) == group1(lines)

OnlyCatchAll == Returned("parse_yt_dlp_error") /\ MatchingRows(call.lines) = {CatchAll}

\* C14 as stated: when only the catch-all matches, the result is
\* "yt-dlp Error: " and the raw text after "ERROR:" itself when that has at
\* most 150 characters, its first 150 characters and "..." when it has more,
\* and the fixed catch-all message when it is empty.
C14_CatchAllKeepsRawText ==
    OnlyCatchAll =>
        LET raw == RawPayload(call.lines)
        IN  IF raw.len = 0
            THEN ret = RowMsg(CatchAll)
            ELSE /\ ret.message = "yt-dlp Error: "
                 /\ ret.text = Slice(raw, ErrorTextLimit)
                 /\ ret.ellipsis = (raw.len > ErrorTextLimit)

\* C14 amended: the text is the text after "ERROR:" without the whitespace
\* around it; the 150 characters are counted on that, an empty or
\* all-whitespace text gives the fixed message, and the result is never empty.
C14_CatchAllKeepsTrimmedText ==
    OnlyCatchAll =>
        LET raw == RawPayload(call.lines)
            trimmed == [skip |-> raw.lead, len |-> raw.len - raw.lead, lead |-> 0]
        IN  /\ ret.message # ""
            /\ IF trimmed.len = 0
               THEN ret = RowMsg(CatchAll)
               ELSE /\ ret.message = "yt-dlp Error: "
                    /\ ret.text.skip = trimmed.skip
                    /\ ret.text.len = IF trimmed.len <= ErrorTextLimit THEN trimmed.len
                                      ELSE ErrorTextLimit
                    /\ ret.ellipsis = (trimmed.len > ErrorTextLimit)

C14_Witness ==
    /\ OnlyCatchAll
    /\ RawPayload(call.lines).lead = 1
    /\ RawPayload(call.lines).len = ErrorTextLimit + 2
    /\ ret.ellipsis
    /\ ret.text.len = ErrorTextLimit

\* C15: two invocations of the command builder with the same request give
\* the same argument vector: an invocation that follows another one for the
\* same request returns what that one returned.
C15_BuilderDeterministic ==
    [][(call.fn = "build_command" /\ ret # NoCall) => ret' = ret]_vars

\* ---- the reset after a standalone job (Spec) --------------------------------
IsReset(m) == m.active = 0 /\ m.cev = 0 /\ m.pend = << >> /\ m.info = NoInfo

Standalone(msg) == msg.tag = "STATUS" /\ ~msg.playlist

\* How many events of the channel one run of process_download_queue handles.
Handled == Len(download_queue) - Len(Drain(download_queue, Mgr).rest)

\* C20: in every run of process_download_queue, the manager's record right
\* after the handling of a standalone job's STATUS event (whatever its status,
\* and also when the handler raises after it) has no active id, no stored
\* token, an empty pending queue and zeroed batch counters; when that event is
\* the last one the run handles, this is the state the run leaves.
C20_StandaloneStatusResetsQueueState ==
    [][process_download_queue =>
          \A i \in 1..Handled :
              Standalone(download_queue[i]) =>
                  /\ IsReset(Drain(SubSeq(download_queue, 1, i), Mgr).m)
                  /\ i = Handled =>
                        /\ current_active_download_id' = 0
                        /\ current_download_cancel_event' = 0
                        /\ pending_downloads' = << >>
                        /\ current_playlist_download_info' = NoInfo]_vars

C20_Witness ==
    /\ job[1].pc = "finished"
    /\ download_queue = << >>
    /\ poll_armed
    /\ ntok = 1
    /\ active_downloads = {}
    /\ current_active_download_id = 0
    /\ current_download_cancel_event = 0
    /\ current_playlist_download_info = NoInfo

\* A message whose tag the loop of process_download_queue does not know (the
\* tuples the playlist worker tags DOWNLOAD_ERROR_DETAILS and
\* DOWNLOAD_CANCELLED_SIGNAL).
Unrecognized(msg) == msg.tag \notin {"ADDED", "UPDATE", "STATUS"}

\* C23: in every run of process_download_queue, the handling of a message
\* with an unrecognized tag leaves the manager's record as it was (pending
\* queue, active id, token reference, batch counters) and raises nothing, so
\* the loop goes on; a run that handles only such messages changes none of the
\* manager's fields and re-arms the poll.
C23_UnrecognizedTagIsIgnored ==
    [][process_download_queue =>
          /\ \A i \in 1..Handled :
                Unrecognized(download_queue[i]) =>
                    Drain(SubSeq(download_queue, 1, i), Mgr).m
                        = Drain(SubSeq(download_queue, 1, i - 1), Mgr).m
          /\ (\A i \in 1..Handled : Unrecognized(download_queue[i])) =>
                /\ Handled = Len(download_queue)
                /\ poll_armed'
                /\ UNCHANGED << pending_downloads, current_active_download_id,
                                current_download_cancel_event, active_downloads,
                                current_playlist_download_info >>]_vars

\* The listing of a playlist failed, its error tuple was put and has been
\* taken off the channel, and the manager still holds the playlist's token.
C23_Witness ==
    /\ worker.pc = "none"
    /\ cancel_set = {}
    /\ download_queue = << >>
    /\ poll_armed
    /\ current_download_cancel_event = worker.tok
    /\ current_active_download_id = 0

\* ---- properties of the line interpreter (ReadSpec) ---------------------------
\* A step of ReadSpec takes line number ret.pos + 1 from the pipe.
Reading == call.fn = "read_lines" /\ ret' # ret

NextLine == call.lines[ret.pos + 1]

BraceLine(line) == line.kind \in {"json", "braces"}

Logged(s, n) == \E k \in DOMAIN s.log : s.log[k].line = n

\* C25: the step that reads a {...} line raises nothing, so the job goes on
\* and its terminal status is decided as without the line; when the line is
\* JSON the title is updated, the path too when the line has one, and one
\* metadata UPDATE event is put; when it is not JSON the line is handled as
\* plain text: it changes neither title nor path, puts no UPDATE and is logged.
C25_JsonLineNeverAbortsJob ==
    [][(Reading /\ BraceLine(NextLine)) =>
          /\ ret'.exc = "none"
          /\ IF NextLine.kind = "json"
             THEN /\ ret'.download_title = "metadata"
                  /\ ret'.final_filename_with_path =
                        IF NextLine.arg # "" THEN normpath(NextLine.arg)
                        ELSE ret.final_filename_with_path
                  /\ ret'.updates =
                        Append(ret.updates, [line |-> ret.pos + 1, kind |-> "title"])
             ELSE /\ ret'.download_title = ret.download_title
                  /\ ret'.final_filename_with_path = ret.final_filename_with_path
                  /\ ret'.updates = ret.updates
                  /\ Logged(ret', ret.pos + 1)]_vars

\* A merge or extract marker whose pattern finds a file name on the line.
NamesFile(line) == line.kind \in {"merge", "extract"} /\ line.arg # ""

\* Marker lines and lines that say nothing about the file.
MarkerOrText(line) ==
    line.kind \in {"merge", "extract", "destination", "plain", "stderr", "blank"}

LastNaming(n) ==
    CHOOSE i \in 1..n :
        NamesFile(call.lines[i]) /\ \A k \in (i + 1)..n : ~NamesFile(call.lines[k])

\* C26: after every line of a run of marker lines (and lines without a file
\* name) in which a merge or extract marker has named a file, the resolved
\* path is the normalized name of the last such marker; and the step that
\* reads a Destination line changes the path only when no path was known and
\* the name does not end in .part or .ytdl, and then to that name.
C26_LastMergeMarkerWins ==
    [][Reading =>
          /\ (/\ \A i \in 1..(ret.pos + 1) : MarkerOrText(call.lines[i])
              /\ \E i \in 1..(ret.pos + 1) : NamesFile(call.lines[i]))
             => ret'.final_filename_with_path
                    = normpath(call.lines[LastNaming(ret.pos + 1)].arg)
          /\ (/\ NextLine.kind = "destination"
              /\ ret'.final_filename_with_path # ret.final_filename_with_path)
             => /\ ret.final_filename_with_path = NoPath
                /\ ~endswith_part_or_ytdl(NextLine.arg)
                /\ ret'.final_filename_with_path = normpath(NextLine.arg)]_vars

\* Two markers name different files and a Destination line follows them.
C26_Witness ==
    /\ call.fn = "read_lines"
    /\ call.lines = << [kind |-> "merge", arg |-> "./final.mp4"],
                       [kind |-> "extract", arg |-> "audio.m4a"],
                       [kind |-> "destination", arg |-> "video.f137.mp4"] >>
    /\ ret.pos = 3
    /\ ret.final_filename_with_path = "audio.m4a"

\* The run is over: every line was read, or an exception left the loop.
Finished == call.fn = "read_lines" /\ (ret.pos = Len(call.lines) \/ ret.exc # "none")

MetadataWithPath(line) == line.kind = "json" /\ line.arg # ""

\* C27: a run of two lines, one a metadata JSON line with a file path and the
\* other a merge or extract marker naming a file, ends with the same resolved
\* path as the run of the same two lines in the other order.
C27_PathIndependentOfArrivalOrder ==
    (/\ Finished
     /\ Len(call.lines) = 2
     /\ \E i, k \in 1..2 :
           i # k /\ MetadataWithPath(call.lines[i]) /\ NamesFile(call.lines[k]))
    => ret.final_filename_with_path
           = ReadAll(NewReader, Reverse(call.lines)).final_filename_with_path

\* C28: no step of the read loop takes the resolved path from a file name back
\* to None or to the empty string, whatever the line it reads (metadata
\* without a path, a marker whose pattern finds no name, a blank line, a line
\* that raises).
C28_ResolvedPathNeverCleared ==
    [][(call.fn = "read_lines" /\ ret.final_filename_with_path # NoPath)
       => (ret'.final_filename_with_path # NoPath /\ ret'.final_filename_with_path # "")]_vars

\* A marker named the file; a metadata line without a path and a marker line
\* without a name were read after it.
C28_Witness ==
    /\ call.fn = "read_lines"
    /\ call.lines = << [kind |-> "merge", arg |-> "./final.mp4"],
                       [kind |-> "json", arg |-> ""],
                       [kind |-> "merge", arg |-> ""] >>
    /\ ret.pos = 3
    /\ ret.final_filename_with_path = "final.mp4"

\* C29: every line taken from the pipes that is not blank, metadata and
\* progress lines included, has its log string on the channel once the step
\* that read it is over.
C29_EveryLineIsLogged ==
    call.fn = "read_lines" =>
        \A i \in 1..ret.pos : call.lines[i].kind # "blank" => Logged(ret, i)

\* C30: the diagnostic buffer never holds more than
\* MAX_OUTPUT_LINES_FOR_ERROR_PARSE lines, and it holds the most recent
\* non-blank lines read, in the order of their arrival.
C30_DiagnosticBufferBounded ==
    call.fn = "read_lines" =>
        LET arrived == SelectSeq([i \in 1..ret.pos |-> i],
                                 LAMBDA i : call.lines[i].kind # "blank")
        IN  /\ Len(ret.output_lines) <= MAX_OUTPUT_LINES_FOR_ERROR_PARSE
            /\ ret.output_lines = LastLines(arrived, MAX_OUTPUT_LINES_FOR_ERROR_PARSE)

\* ---------------------------------------------------------------------------
\* The reader threads and the supervisor of one core job, statement by statement
\* (SubprocessOutputProcessor): which lock each access of the shared fields holds.

MaxStdout == 2
MaxStderr == 1

Readers == {"stdout", "stderr"}

StreamLines == {"json", "merge", "plain"}

NewProcessor ==
    [stdout |-> [pc |-> "readline", pos |-> 0],
     stderr |-> [pc |-> "readline", pos |-> 0],
     supervisor |-> "join",
     _output_lock |-> "free",
     _filename_lock |-> "free",
     download_title |-> "url",
     final_filename_with_path |-> NoPath,
     yt_dlp_full_output_for_error_parse |-> << >>,
     final_path |-> NoPath,
     parsed |-> 0,
     title |-> "unsent"]

ProcessorCalls ==
    {[fn |-> "processor", stdout |-> o, stderr |-> e, returncode |-> rc] :
        o \in UNION {[1..n -> StreamLines] : n \in 1..MaxStdout},
        e \in UNION {[1..n -> {"plain"}] : n \in 0..MaxStderr},
        rc \in {0, 1}}

\* One statement of reader thread t.  A `with lock:` block is two steps: the
\* acquisition, and the body together with the release.
_read_stream_step(s, t, lines) ==
    LET me == s[t]
        line == lines[me.pos + 1]
        next == [pc |-> "readline", pos |-> me.pos + 1]
    IN  CASE me.pc = "readline" /\ me.pos = Len(lines) ->
                {[s EXCEPT ![t].pc = "eof"]}
          [] me.pc = "readline" /\ me.pos < Len(lines) ->
                IF s._output_lock = "free"
                THEN {[s EXCEPT ![t].pc = "append", !._output_lock = t]}
                ELSE {}
          [] me.pc = "append" ->
                {[s EXCEPT !.yt_dlp_full_output_for_error_parse = Append(@, <<t, me.pos + 1>>),
                           !._output_lock = "free",
                           ![t] = IF t = "stdout" /\ line \in {"json", "merge"}
                                  THEN [me EXCEPT !.pc = line]
                                  ELSE next]}
          [] me.pc = "json" ->
                {[s EXCEPT !.download_title = "title", ![t].pc = "filepath"]}
          [] me.pc \in {"filepath", "merge"} ->
                IF s._filename_lock = "free"
                THEN {[s EXCEPT ![t].pc = "set_path", !._filename_lock = t]}
                ELSE {}
          [] me.pc = "set_path" ->
                {[s EXCEPT !.final_filename_with_path = line,
                           !._filename_lock = "free",
                           ![t] = next]}
          [] OTHER -> {}

\* One statement of the supervisor after the process has exited: the joins
\* (each with a timeout, so they return whether or not the readers are done),
\* then the finalization.
run_step(s, rc) ==
    CASE s.supervisor = "join" ->
            {[s EXCEPT !.supervisor = IF rc = 0 THEN "finalize" ELSE "parse_error"]}
      [] s.supervisor = "finalize" ->
            IF s._filename_lock = "free"
            THEN {[s EXCEPT !.supervisor = "copy_path", !._filename_lock = "supervisor"]}
            ELSE {}
      [] s.supervisor = "copy_path" ->
            {[s EXCEPT !.final_path = s.final_filename_with_path,
                       !._filename_lock = "free",
                       !.supervisor = "send"]}
      [] s.supervisor = "parse_error" ->
            {[s EXCEPT !.parsed = Len(s.yt_dlp_full_output_for_error_parse),
                       !.supervisor = "send"]}
      [] s.supervisor = "send" ->
            {[s EXCEPT !.title = s.download_title, !.supervisor = "done"]}
      [] OTHER -> {}

ProcessorInit ==
    /\ impl = "core"
    /\ download_subtitles = FALSE
    /\ job = [j \in JobIds |-> NoJob]
    /\ njobs = 0
    /\ ntok = 0
    /\ cancel_set = {}
    /\ download_queue = << >>
    /\ pending_downloads = << >>
    /\ current_active_download_id = 0
    /\ current_download_cancel_event = 0
    /\ active_downloads = {}
    /\ current_playlist_download_info = NoInfo
    /\ worker = [pc |-> "idle", tok |-> 0, n |-> 0, runs |-> 0]
    /\ poll_armed = TRUE
    /\ call \in ProcessorCalls
    /\ ret = NewProcessor

reader_thread ==
    /\ \E t \in Readers : ret' \in _read_stream_step(ret, t, call[t])
    /\ UNCHANGED call
    /\ UNCHANGED prog_vars

supervisor_thread ==
    /\ ret' \in run_step(ret, call.returncode)
    /\ UNCHANGED call
    /\ UNCHANGED prog_vars

ProcessorNext ==
    \/ reader_thread
    \/ supervisor_thread

ProcessorSpec == ProcessorInit /\ [][ProcessorNext]_vars

InterpreterFields ==
    {"download_title", "final_filename_with_path", "yt_dlp_full_output_for_error_parse"}

HoldsLock(s, t) == s._output_lock = t \/ s._filename_lock = t

\* C31: every step of a reader thread that changes the title, the resolved
\* path or the diagnostic buffer is taken by a thread that holds a lock.
C31_ReaderMutationsHoldLock ==
    [][\A f \in InterpreterFields :
          ret'[f] # ret[f] =>
              \E t \in Readers : ret'[t] # ret[t] /\ HoldsLock(ret, t)]_vars

\* C32: a completed job takes the .jpg written by the downloader when it
\* exists; otherwise an audio job goes to embedded-art extraction and a video
\* job to frame extraction, never the other way round.
C32_ThumbnailHelperMatchesMediaKind ==
    Returned("thumbnail") =>
        /\ call.sibling => ret.helper = "None" /\ ret.thumbnail_path = "ytdlp"
        /\ ~call.sibling /\ call.download_type = "Audio" =>
              ret.helper = "extract_album_art_logic"
        /\ ~call.sibling /\ call.download_type = "Video" =>
              ret.helper = "generate_thumbnail_from_video_logic"

\* ---- properties of the command builder: format and subtitle options ---------
Built == Returned("build_command") /\ ret.command # None

Positions(command, arg) == {i \in 1..Len(command) : command[i] = arg}

Has(command, arg) == Positions(command, arg) # {}

ExplicitFormat(req) ==
    req.selected_format_code \notin {"", "best", "Best"}

\* The format expression each controller uses when no format id is chosen.
DefaultFormat(controller, req) ==
    IF req.download_type = "Audio" THEN "bestaudio[ext=m4a]/bestaudio"
    ELSE IF controller = "legacy" /\ req.platform # "youtube"
         THEN "bestvideo+bestaudio/best"
         ELSE "bestvideo[ext=mp4][vcodec^=avc]+bestaudio[ext=m4a]/best[ext=mp4]/best"

\* C33: the vector has exactly one -f; its argument is the format id as given
\* when one is chosen (not empty, not "best" in any case), otherwise the
\* default expression for the media kind and platform; the vector ends with
\* the url.
C33_FormatOptionFollowsSelector ==
    Built =>
        /\ Cardinality(Positions(ret.command, "-f")) = 1
        /\ \A i \in Positions(ret.command, "-f") :
              /\ i < Len(ret.command)
              /\ ret.command[i + 1] =
                    IF ExplicitFormat(call.req) THEN call.req.selected_format_code
                    ELSE DefaultFormat(impl, call.req)
        /\ ret.command[Len(ret.command)] = call.req.url

C33_Witness ==
    /\ Built
    /\ call.req.selected_format_code = "137"
    /\ \E i \in Positions(ret.command, "-f") : ret.command[i + 1] = "137"

SubtitleFlags == {"--write-subs", "--all-subs", "--sub-lang", "--embed-subs"}

\* C34: --write-subs is in the vector iff subtitles are requested; then the
\* language spec "all" in any case gives --all-subs and no --sub-lang, any
\* other non-empty spec gives --sub-lang followed by the spec, and
\* --embed-subs is there iff the embed flag is set; without the request none
\* of the four flags is in the vector.
C34_SubtitleFlagsFollowRequest ==
    Built =>
        LET req == call.req
            all == req.subtitle_languages \in {"all", "ALL"}
        IN  /\ Has(ret.command, "--write-subs") <=> req.download_subtitles
            /\ req.download_subtitles =>
                  /\ all => /\ Has(ret.command, "--all-subs")
                            /\ ~Has(ret.command, "--sub-lang")
                  /\ (~all /\ req.subtitle_languages # "") =>
                        /\ Cardinality(Positions(ret.command, "--sub-lang")) = 1
                        /\ \A i \in Positions(ret.command, "--sub-lang") :
                              ret.command[i + 1] = req.subtitle_languages
                  /\ Has(ret.command, "--embed-subs") <=> req.embed_subtitles
            /\ ~req.download_subtitles =>
                  \A flag \in SubtitleFlags : ~Has(ret.command, flag)

C34_Witness ==
    /\ Built
    /\ call.req.download_subtitles
    /\ call.req.subtitle_languages = "ALL"
    /\ call.req.embed_subtitles
    /\ Has(ret.command, "--all-subs")
    /\ Has(ret.command, "--embed-subs")

\* ---- properties of the event consumer's poll ---------------------------------
\* C35: process_download_queue re-arms its poll at the end of every
\* invocation, whatever events it handled, so the poll is pending whenever
\* the consumer is not running.
C35_PollReArmedAfterEveryInvocation == poll_armed

\* ---- properties of the active id ------------------------------------------------
StatusPending(j) ==
    \E i \in 1..Len(download_queue) :
        download_queue[i].tag = "STATUS" /\ download_queue[i].id = j

MaxScript == 4
PipeCapacity == 2

ToolScripts == UNION {[1..n -> {"stdout", "stderr"}] : n \in 0..MaxScript}

FetchCalls ==
    {[fn |-> "_fetch_playlist_urls", script |-> t, hang |-> h, returncode |-> rc] :
        t \in ToolScripts, h \in BOOLEAN, rc \in {0, 1}}

\* pc: where _fetch_playlist_urls is; written: chunks the tool has written;
\* stdout, stderr: chunks waiting in each pipe; proc: the tool's state.
NewFetch ==
    [pc |-> "readline", written |-> 0, stdout |-> 0, stderr |-> 0, proc |-> "run",
     cancel_event |-> FALSE, temp_urls |-> 0, result |-> "pending"]

FetchInit ==
    /\ impl = "legacy"
    /\ download_subtitles = FALSE
    /\ job = [j \in JobIds |-> NoJob]
    /\ njobs = 0
    /\ ntok = 0
    /\ cancel_set = {}
    /\ download_queue = << >>
    /\ pending_downloads = << >>
    /\ current_active_download_id = 0
    /\ current_download_cancel_event = 0
    /\ active_downloads = {}
    /\ current_playlist_download_info = NoInfo
    /\ worker = [pc |-> "idle", tok |-> 0, n |-> 0, runs |-> 0]
    /\ poll_armed = TRUE
    /\ call \in FetchCalls
    /\ ret = NewFetch

Fetching == call.fn = "_fetch_playlist_urls"

\* The tool writes its next chunk when the pipe has room.
tool_write ==
    /\ Fetching
    /\ ret.proc = "run"
    /\ ret.written < Len(call.script)
    /\ LET pipe == call.script[ret.written + 1]
       IN  /\ ret[pipe] < PipeCapacity
           /\ ret' = [ret EXCEPT ![pipe] = @ + 1, !.written = @ + 1]
    /\ UNCHANGED call
    /\ UNCHANGED prog_vars

\* The tool exits after its last chunk, or when it was terminated; both pipes
\* are closed on its side.
tool_exit ==
    /\ Fetching
    /\ \/ ret.proc = "run" /\ ret.written = Len(call.script) /\ ~call.hang
       \/ ret.proc = "term"
    /\ ret' = [ret EXCEPT !.proc = "exit"]
    /\ UNCHANGED call
    /\ UNCHANGED prog_vars

\* for line in iter(process.stdout.readline, ''): readline returns a waiting
\* line, or '' once the tool has exited and the pipe is empty; otherwise it
\* blocks.  The token is tested in the loop body, once per line read.
fetch_readline ==
    /\ Fetching
    /\ ret.pc = "readline"
    /\ \/ /\ ret.stdout > 0
          /\ ret' = IF ret.cancel_event
                    THEN [ret EXCEPT !.stdout = @ - 1, !.pc = "returned",
                                     !.result = "None",
                                     !.proc = IF @ = "run" THEN "term" ELSE @]
                    ELSE [ret EXCEPT !.stdout = @ - 1, !.temp_urls = @ + 1]
       \/ /\ ret.stdout = 0
          /\ ret.proc = "exit"
          /\ ret' = [ret EXCEPT !.pc = "read_stderr"]
    /\ UNCHANGED call
    /\ UNCHANGED prog_vars

\* process.stderr.read(), the two close() calls and process.wait().
fetch_read_stderr ==
    /\ Fetching
    /\ ret.pc = "read_stderr"
    /\ ret.proc = "exit"
    /\ ret' = [ret EXCEPT !.stderr = 0, !.pc = "returned",
                          !.result = IF call.returncode = 0 THEN "urls" ELSE "None"]
    /\ UNCHANGED call
    /\ UNCHANGED prog_vars

\* The user cancels while the fetch runs.
fetch_cancel ==
    /\ Fetching
    /\ ret.pc # "returned"
    /\ ~ret.cancel_event
    /\ ret' = [ret EXCEPT !.cancel_event = TRUE]
    /\ UNCHANGED call
    /\ UNCHANGED prog_vars

FetchNext ==
    \/ tool_write
    \/ tool_exit
    \/ fetch_readline
    \/ fetch_read_stderr
    \/ fetch_cancel

FetchSpec == FetchInit /\ [][FetchNext]_vars

\* readline has nothing to return and the tool has not exited.
ReadlineBlocked == ret.pc = "readline" /\ ret.stdout = 0 /\ ret.proc = "run"

\* The tool's next chunk goes to stderr and the stderr pipe is full.
ToolBlockedOnStderr ==
    /\ ret.proc = "run"
    /\ ret.written < Len(call.script)
    /\ call.script[ret.written + 1] = "stderr"
    /\ ret.stderr = PipeCapacity

\* The tool has written everything and neither writes nor exits.
ToolSilent == ret.proc = "run" /\ ret.written = Len(call.script) /\ call.hang

\* C37: the fetch never reaches a state it cannot leave: blocked in readline
\* while the tool is blocked on a full stderr pipe, or blocked in readline
\* with the token set while the tool stays silent.
C37_FetchNeverBlocksForever ==
    Fetching =>
        /\ ~(ReadlineBlocked /\ ToolBlockedOnStderr)
        /\ ~(ReadlineBlocked /\ ToolSilent /\ ret.cancel_event)

\* ---- properties of the end of a job thread -----------------------------------
\* C38: when a job thread has finished, the process it launched has exited or
\* the thread has killed it; no thread ends with its process running untouched.
C38_FinishedThreadLeavesNoRunningProcess ==
    \A j \in JobIds :
        (job[j].pc = "done" /\ job[j].proc # "none") => job[j].proc \in {"exit", "kill"}

C38_Witness ==
    \E j \in JobIds : job[j].pc = "done" /\ job[j].proc = "kill" /\ job[j].stubborn

\* ---- properties of the classifier on output without an error line ------------
NoErrorLine == \A i \in DOMAIN call.lines : ~call.lines[i].error

ExitCodes == {1, 2}

\* C39: when no line handed to the classifier has an "ERROR:" in it (and so
\* when none contains "error"), the classifier returns None, whatever the
\* lines it falls back to contain, and the message of the failed event is the
\* text naming the exit code.
C39_NoErrorLineYieldsGenericMessage ==
    (Returned("parse_yt_dlp_error") /\ NoErrorLine) =>
        /\ ret = NoneMsg
        /\ \A return_code \in ExitCodes :
              final_message(ret, return_code) = GenericExitMsg(return_code)

C39_Witness ==
    /\ Returned("parse_yt_dlp_error")
    /\ NoErrorLine
    /\ Len(call.lines) = MaxDiag
    /\ \A i \in DOMAIN call.lines : ~call.lines[i].warn
    /\ \E i \in DOMAIN call.lines : call.lines[i].has # {}
    /\ ret = NoneMsg

====
